---- MODULE Spec2Model ----
(***************************************************************************)
(* Model of the room-scoped real-time broadcast manager of src/main.py:    *)
(* the WebSocketManager registry (connect / remove / send_to_room /        *)
(* broadcast_to_room), the per-connection handler websocket_endpoint and   *)
(* the REST handler post_message.                                          *)
(*                                                                         *)
(* Concurrency is asyncio's: one event loop, a coroutine runs until its    *)
(* next await.  The awaits of the source are websocket.accept (line 94),   *)
(* websocket.receive_json (line 131) and ws.send_json (line 113); every    *)
(* action below is the code between two consecutive awaits.                *)
(***************************************************************************)
EXTENDS Integers, Sequences, FiniteSets, TLC

(* Bounds of the model. *)
MaxMsgs == 2

(* Connection handles (reference identity) and room identifiers. *)
Conns == {"a", "b", "c"}
RoomIds == {"general", "random"}

VARIABLES
    rooms,      \* WebSocketManager.rooms: room_id -> set of websockets
    room_id,    \* the path parameter of each connection's handler
    pc,         \* position of each websocket_endpoint coroutine ("absent":
                \* the client never opens this connection)
    alive,      \* transport of the connection still accepts sends
    bc,         \* frame of the send_to_room call a handler is awaiting
    tasks,      \* send_to_room coroutines scheduled by broadcast_to_room
    store,      \* the "message" collection, in insertion order
    log,        \* per connection: the send_json calls made on it, in order
    leaves,     \* per connection: calls of remove made by its handler
    cause,      \* per connection: what ended its handler
    subscribed, \* per connection: its handler reached the receive loop
    data,       \* per connection: the frame last returned by receive_json
    regCall     \* last direct registry call (registry-only specification)

vars == <<rooms, room_id, pc, alive, bc, tasks, store, log, leaves, cause,
          subscribed, data, regCall>>

(***************************************************************************)
(* The registry: a dict, modelled as a function whose domain is its keys.  *)
(***************************************************************************)
EmptyRegistry == [k \in {} |-> {}]

DictPut(d, k, v) == [j \in (DOMAIN d) \cup {k} |-> IF j = k THEN v ELSE d[j]]

DictDel(d, k) == [j \in (DOMAIN d) \ {k} |-> d[j]]

(* connect with one set object shared by every room: the add of line 97   *)
(* shows in each of them.                                                  *)
connect_SharedSet(reg, r, ws) ==
    LET reg1 == IF r \in DOMAIN reg THEN reg ELSE DictPut(reg, r, {})
    IN  [k \in DOMAIN reg1 |-> reg1[k] \cup {ws}]

(* WebSocketManager.connect after the accept: lines 95-97. *)
connect(reg, r, ws) ==
    LET reg1 == IF r \notin DOMAIN reg THEN DictPut(reg, r, {}) ELSE reg
    IN  DictPut(reg1, r, reg1[r] \cup {ws})

(* remove without lines 103-104: an emptied room keeps its entry. *)
remove_KeepEmpty(reg, r, ws) ==
    IF r \in DOMAIN reg /\ ws \in reg[r]
    THEN [reg |-> DictPut(reg, r, reg[r] \ {ws}), err |-> FALSE]
    ELSE [reg |-> reg, err |-> FALSE]

(* remove without the guard of line 101: the subscript or set.remove      *)
(* raises KeyError on an absent room or websocket.                         *)
remove_Unguarded(reg, r, ws) ==
    IF r \in DOMAIN reg /\ ws \in reg[r]
    THEN LET reg1 == DictPut(reg, r, reg[r] \ {ws})
         IN  [reg |-> IF reg1[r] = {} THEN DictDel(reg1, r) ELSE reg1,
              err |-> FALSE]
    ELSE [reg |-> reg, err |-> TRUE]

(* WebSocketManager.remove, lines 100-104.  err: the call raised. *)
remove(reg, r, ws) ==
    IF r \in DOMAIN reg /\ ws \in reg[r]
    THEN LET reg1 == DictPut(reg, r, reg[r] \ {ws})
         IN  [reg |-> IF reg1[r] = {} THEN DictDel(reg1, r) ELSE reg1,
              err |-> FALSE]
    ELSE [reg |-> reg, err |-> FALSE]

(* A snapshot of every room's members instead of the target room's. *)
snapshot_AllRooms(reg, r) == UNION {reg[k] : k \in DOMAIN reg}

(* send_to_room, line 111: list(cls.rooms[room_id]), a copy of the set. *)
snapshot(reg, r) == reg[r]

(* Lines 116-117 deleting the room's entry when a send failed. *)
discardDead_DropRoom(reg, r, dead) ==
    IF dead = {} THEN [reg |-> reg, err |-> FALSE]
    ELSE IF r \notin DOMAIN reg THEN [reg |-> reg, err |-> TRUE]
    ELSE [reg |-> DictDel(reg, r), err |-> FALSE]

(* send_to_room, lines 116-117: discard every dead websocket.  The        *)
(* subscript cls.rooms[room_id] raises KeyError when the key is gone.      *)
discardDead(reg, r, dead) ==
    IF dead = {} THEN [reg |-> reg, err |-> FALSE]
    ELSE IF r \notin DOMAIN reg THEN [reg |-> reg, err |-> TRUE]
    ELSE [reg |-> DictPut(reg, r, reg[r] \ dead), err |-> FALSE]

(***************************************************************************)
(* The message store.  database.py is not among the sources; insert and    *)
(* find follow the store contract: an atomic insert that returns a fresh   *)
(* identifier or raises, and a find that returns the inserted document.    *)
(***************************************************************************)
(* create_document: atomic insert returning a fresh identifier.  src is   *)
(* not a field of the document: it records who inserted it, a connection   *)
(* or the REST handler.                                                    *)
create_document(st, msg, src) ==
    LET id == Len(st) + 1
    IN  [store |-> Append(st, [_id |-> id, room_id |-> msg.room_id,
                               sender |-> msg.sender, content |-> msg.content,
                               src |-> src]),
         id |-> id]

(* db["message"].find_one({"_id": ObjectId(msg_id)}) *)
find_one(st, id) == st[id]

(* serialize_doc, lines 23-33: "_id" is popped and becomes "id". *)
serialize_doc(doc) ==
    [id |-> doc._id, room_id |-> doc.room_id, sender |-> doc.sender,
     content |-> doc.content, src |-> doc.src]

(***************************************************************************)
(* Frames and messages                                                     *)
(***************************************************************************)
(* JSON null, the value of a frame's key that is not a string. *)
JsonNull == "<null>"

(* The JSON objects receive_json returns: each of the keys "sender" and    *)
(* "content" is absent, a string or null.                                  *)
Frames ==
    {f \in UNION {[K -> {"alice", "hi", JsonNull}] :
                      K \in SUBSET {"sender", "content"}} :
        /\ "sender" \in DOMAIN f => f["sender"] \in {"alice", JsonNull}
        /\ "content" \in DOMAIN f => f["content"] \in {"hi", JsonNull}}

(* A frame with both keys. *)
CompleteFrame == [sender |-> "alice", content |-> "hi"]

(* dict.get(k) without a default: None when the key is absent. *)
dict_get_NoDefault(d, k, default) == IF k \in DOMAIN d THEN d[k] ELSE JsonNull

(* dict.get(k, default): the default only when the key is absent. *)
dict_get(d, k, default) == IF k \in DOMAIN d THEN d[k] ELSE default

(* schemas.Message: three required fields of type str. *)
Message(r, sender, content) ==
    [room_id |-> r, sender |-> sender, content |-> content]

(* pydantic accepts the fields: a null is not a str. *)
MessageValid(m) == m.sender # JsonNull /\ m.content # JsonNull

(***************************************************************************)
(* Initial state                                                           *)
(***************************************************************************)
(* No send_to_room call in progress; 0 is the id of no document. *)
NoBc == [msg |-> [id |-> 0, room_id |-> "", sender |-> "", content |-> "",
                  src |-> ""],
         snap |-> {}, todo |-> {}, dead |-> {}]

(* The last direct registry call, the registry before it, and the call    *)
(* made just before it with the registry before that one.                  *)
NoCall == [op |-> "none", room |-> "", ws |-> "", before |-> EmptyRegistry,
           err |-> FALSE, prevOp |-> "none", prevRoom |-> "", prevWs |-> "",
           before2 |-> EmptyRegistry]

(* The state after import, with the handlers of the connections in        *)
(* clients about to start, each with one of the path parameters paths.     *)
Setup(clients, paths) ==
    /\ rooms = EmptyRegistry
    /\ room_id \in paths
    /\ pc = [c \in Conns |-> IF c \in clients THEN "connecting" ELSE "absent"]
    /\ alive = [c \in Conns |-> TRUE]
    /\ bc = [c \in Conns |-> NoBc]
    /\ tasks = {}
    /\ store = <<>>
    /\ log = [c \in Conns |-> <<>>]
    /\ leaves = [c \in Conns |-> 0]
    /\ cause = [c \in Conns |-> "none"]
    /\ subscribed = [c \in Conns |-> FALSE]
    /\ data = [c \in Conns |-> <<>>]
    /\ regCall = NoCall

(* Two connections, in the same room or in different rooms. *)
Init ==
    Setup({"a", "b"},
          {f \in [Conns -> RoomIds] : f["a"] = "general" /\ f["c"] = "general"})

(* Three connections to the same room. *)
InitTrio == Setup(Conns, {[c \in Conns |-> "general"]})

(***************************************************************************)
(* websocket_endpoint, lines 126-141                                       *)
(***************************************************************************)

(* The except clauses, lines 138-141: remove, then the coroutine returns. *)
HandlerExcept(c, why) ==
    /\ rooms' = remove(rooms, room_id[c], c).reg
    /\ leaves' = [leaves EXCEPT ![c] = @ + 1]
    /\ pc' = [pc EXCEPT ![c] = "closed"]
    /\ cause' = [cause EXCEPT ![c] = why]
    /\ bc' = [bc EXCEPT ![c] = NoBc]
    /\ alive' = alive

(* The loop without the try of lines 112-115: the first failing send ends  *)
(* the iteration and the remaining websockets are skipped.                 *)
sendStep_AbortOnFailure(frame, ws, ok) ==
    [msg  |-> frame.msg,
     snap |-> frame.snap,
     todo |-> IF ok THEN frame.todo \ {ws} ELSE {},
     dead |-> IF ok THEN frame.dead ELSE frame.dead \cup {ws}]

(* One ws.send_json of a send_to_room loop, lines 111-115. *)
sendStep(frame, ws, ok) ==
    [msg  |-> frame.msg,
     snap |-> frame.snap,
     todo |-> frame.todo \ {ws},
     dead |-> IF ok THEN frame.dead ELSE frame.dead \cup {ws}]

(* send_json on ws is recorded whether or not it raised. *)
logSend(lg, ws, msg, ok) ==
    [lg EXCEPT ![ws] = Append(@, [msg |-> msg, ok |-> ok])]

(* Line 129: the accept completes and the connection is registered. *)
Accept(c) ==
    /\ pc[c] = "connecting"
    /\ alive[c]
    /\ rooms' = connect(rooms, room_id[c], c)
    /\ pc' = [pc EXCEPT ![c] = "receiving"]
    /\ subscribed' = [subscribed EXCEPT ![c] = TRUE]
    /\ UNCHANGED <<room_id, alive, bc, tasks, store, log, leaves, cause,
                   data, regCall>>

(* Line 94 raises: the handshake failed. *)
AcceptFail(c) ==
    /\ pc[c] = "connecting"
    /\ HandlerExcept(c, "error")
    /\ UNCHANGED <<room_id, tasks, store, log, subscribed, data, regCall>>

(* The handler dispatching through broadcast_to_room instead of awaiting   *)
(* send_to_room: it is back at receive_json at once.                       *)
HandlerBroadcast_FireAndForget(c, payload) ==
    /\ tasks' = tasks \cup {[msg |-> payload, st |-> "scheduled", snap |-> {},
                              todo |-> {}, dead |-> {}]}
    /\ bc' = bc
    /\ pc' = pc

(* send_to_room with a loop that skips the websocket of the calling        *)
(* handler: the message goes to the other members of the snapshot only.    *)
HandlerBroadcast_SkipSender(c, payload) ==
    LET r == room_id[c] IN
    /\ tasks' = tasks
    /\ IF r \notin DOMAIN rooms \/ snapshot(rooms, r) \ {c} = {}
       THEN /\ bc' = bc
            /\ pc' = pc
       ELSE /\ bc' = [bc EXCEPT ![c] = [msg |-> payload,
                                        snap |-> snapshot(rooms, r),
                                        todo |-> snapshot(rooms, r) \ {c},
                                        dead |-> {}]]
            /\ pc' = [pc EXCEPT ![c] = "sending"]

(* send_to_room without the guard of lines 108-109: the subscript of line  *)
(* 111 raises KeyError on a room without entry, which ends the handler.    *)
HandlerBroadcast_NoGuard(c, payload) ==
    LET r == room_id[c] IN
    /\ tasks' = tasks
    /\ IF r \notin DOMAIN rooms
       THEN /\ bc' = bc
            /\ pc' = [pc EXCEPT ![c] = "closed"]
       ELSE IF snapshot(rooms, r) = {}
       THEN /\ bc' = bc
            /\ pc' = pc
       ELSE /\ bc' = [bc EXCEPT ![c] = [msg |-> payload,
                                        snap |-> snapshot(rooms, r),
                                        todo |-> snapshot(rooms, r),
                                        dead |-> {}]]
            /\ pc' = [pc EXCEPT ![c] = "sending"]

(* Line 137: await send_to_room(room_id, payload), up to its first await. *)
(* Lines 108-111: no entry, or an empty snapshot, returns at once and the  *)
(* handler is back at receive_json.                                        *)
HandlerBroadcast(c, payload) ==
    LET r == room_id[c] IN
    /\ tasks' = tasks
    /\ IF r \notin DOMAIN rooms \/ snapshot(rooms, r) = {}
       THEN /\ bc' = bc
            /\ pc' = pc
       ELSE /\ bc' = [bc EXCEPT ![c] = [msg |-> payload,
                                        snap |-> snapshot(rooms, r),
                                        todo |-> snapshot(rooms, r),
                                        dead |-> {}]]
            /\ pc' = [pc EXCEPT ![c] = "sending"]

(* The handler broadcasting the Message of line 133 before the insert of  *)
(* line 135: the payload has no persisted id.                              *)
RecvFrame_BroadcastFirst(c) ==
    LET msg == Message(room_id[c], CompleteFrame.sender, CompleteFrame.content)
    IN  /\ pc[c] = "receiving"
        /\ Len(store) < MaxMsgs
        /\ data' = [data EXCEPT ![c] = <<CompleteFrame>>]
        /\ store' = create_document(store, msg, c).store
        /\ HandlerBroadcast(c, [id |-> 0, room_id |-> msg.room_id,
                                sender |-> msg.sender,
                                content |-> msg.content, src |-> c])
        /\ UNCHANGED <<rooms, room_id, alive, log, leaves, cause, subscribed,
                       regCall>>

(* The loop registering its websocket again on every frame. *)
RecvData_Rejoin(c, d) ==
    LET msg == Message(room_id[c], dict_get(d, "sender", "Anon"),
                       dict_get(d, "content", ""))
    IN  /\ pc[c] = "receiving"
        /\ data' = [data EXCEPT ![c] = <<d>>]
        /\ IF ~MessageValid(msg)
           THEN /\ HandlerExcept(c, "error")
                /\ UNCHANGED <<tasks, store, log>>
           ELSE /\ Len(store) < MaxMsgs
                /\ rooms' = connect(rooms, room_id[c], c)
                /\ LET ins == create_document(store, msg, c)
                       doc == find_one(ins.store, ins.id)
                   IN  /\ store' = ins.store
                       /\ HandlerBroadcast(c, serialize_doc(doc))
                /\ UNCHANGED <<alive, log, leaves, cause>>
        /\ UNCHANGED <<room_id, subscribed, regCall>>

(* Lines 131-137: the frame d arrives, also one that was queued before    *)
(* the transport broke.  Message(...) of line 133 raises on a field that   *)
(* is not a string, which ends the handler at line 140; otherwise the      *)
(* message is persisted and broadcast.                                     *)
RecvData(c, d) ==
    LET msg == Message(room_id[c], dict_get(d, "sender", "Anon"),
                       dict_get(d, "content", ""))
    IN  /\ pc[c] = "receiving"
        /\ data' = [data EXCEPT ![c] = <<d>>]
        /\ IF ~MessageValid(msg)
           THEN /\ HandlerExcept(c, "error")
                /\ UNCHANGED <<tasks, store, log>>
           ELSE /\ Len(store) < MaxMsgs
                /\ LET ins == create_document(store, msg, c)
                       doc == find_one(ins.store, ins.id)
                   IN  /\ store' = ins.store
                       /\ HandlerBroadcast(c, serialize_doc(doc))
                /\ UNCHANGED <<rooms, alive, log, leaves, cause>>
        /\ UNCHANGED <<room_id, subscribed, regCall>>

(* A frame with both keys arrives. *)
RecvFrame(c) == RecvData(c, CompleteFrame)

(* Any frame arrives. *)
RecvAnyFrame(c) == \E d \in Frames : RecvData(c, d)

(* Line 135 raises: the insert failed; nothing is broadcast. *)
RecvPersistFail(c) ==
    /\ pc[c] = "receiving"
    /\ alive[c]
    /\ HandlerExcept(c, "error")
    /\ UNCHANGED <<room_id, tasks, store, log, subscribed, data, regCall>>

(* Line 131 raises WebSocketDisconnect: the peer is gone. *)
RecvDisconnect(c) ==
    /\ pc[c] = "receiving"
    /\ ~alive[c]
    /\ HandlerExcept(c, "disconnect")
    /\ UNCHANGED <<room_id, tasks, store, log, subscribed, data, regCall>>

(* Lines 131-133 raise another exception (undecodable frame, a field of    *)
(* the wrong type rejected by Message).                                    *)
RecvError(c) ==
    /\ pc[c] = "receiving"
    /\ alive[c]
    /\ HandlerExcept(c, "error")
    /\ UNCHANGED <<room_id, tasks, store, log, subscribed, data, regCall>>

(* The loop of line 111 without the list(...) copy: each iteration takes   *)
(* its websocket from the room's set as it is then.                        *)
HandlerSend_LiveView(c) ==
    /\ pc[c] = "sending"
    /\ LET live == IF room_id[c] \in DOMAIN rooms THEN rooms[room_id[c]]
                   ELSE {}
           sent == bc[c].snap \ bc[c].todo
           cur == [bc[c] EXCEPT !.snap = live \cup sent, !.todo = live \ sent]
       IN  \E ws \in cur.todo :
             LET f == sendStep(cur, ws, alive[ws])
                 res == discardDead(rooms, room_id[c], f.dead)
             IN  /\ log' = logSend(log, ws, cur.msg, alive[ws])
                 /\ IF f.todo # {}
                    THEN /\ bc' = [bc EXCEPT ![c] = f]
                         /\ UNCHANGED <<rooms, pc, leaves, cause, alive>>
                    ELSE IF res.err
                    THEN HandlerExcept(c, "broadcast_error")
                    ELSE /\ rooms' = res.reg
                         /\ bc' = [bc EXCEPT ![c] = NoBc]
                         /\ pc' = [pc EXCEPT ![c] = "receiving"]
                         /\ UNCHANGED <<leaves, cause, alive>>
    /\ UNCHANGED <<room_id, tasks, store, subscribed, data, regCall>>

(* One iteration of the loop of lines 111-115 inside the awaited           *)
(* send_to_room; after the last one, lines 116-117 and the return.  A      *)
(* KeyError of line 117 reaches the handler's except Exception, line 140.  *)
HandlerSent(c, cur, ws, ok) ==
    LET f == sendStep(cur, ws, ok)
        res == discardDead(rooms, room_id[c], f.dead)
    IN  /\ log' = logSend(log, ws, cur.msg, ok)
        /\ IF f.todo # {}
           THEN /\ bc' = [bc EXCEPT ![c] = f]
                /\ pc' = [pc EXCEPT ![c] = "sending"]
                /\ UNCHANGED <<rooms, leaves, cause, alive>>
           ELSE IF res.err
           THEN HandlerExcept(c, "broadcast_error")
           ELSE /\ rooms' = res.reg
                /\ bc' = [bc EXCEPT ![c] = NoBc]
                /\ pc' = [pc EXCEPT ![c] = "receiving"]
                /\ UNCHANGED <<leaves, cause, alive>>

(* The send_json of the handler's send_to_room call returns or raises. *)
HandlerSend(c) ==
    /\ pc[c] = "sending"
    /\ \E ws \in bc[c].todo : HandlerSent(c, bc[c], ws, alive[ws])
    /\ UNCHANGED <<room_id, tasks, store, subscribed, data, regCall>>

(* The websocket a suspended call is sending to: it was taken from the     *)
(* list and its send_json has not returned.                                *)
Pending(f) ==
    {ws \in f.snap \ f.todo :
        \A i \in DOMAIN log[ws] : log[ws][i].msg.id # f.msg.id}

(* The await of line 113 does not return: the loop has taken ws from the   *)
(* list and the send on it hangs, a peer that stopped reading (no send     *)
(* has a deadline).  The call, and the handler awaiting it, stay           *)
(* suspended there; nothing is logged for a send that did not return.      *)
HandlerBlock(c) ==
    /\ pc[c] = "sending"
    /\ \E ws \in bc[c].todo :
         /\ alive[ws]
         /\ bc' = [bc EXCEPT ![c].todo = @ \ {ws}]
    /\ pc' = [pc EXCEPT ![c] = "blocked"]
    /\ UNCHANGED <<rooms, room_id, alive, tasks, store, log, leaves, cause,
                   subscribed, data, regCall>>

(* The transport of the websocket a hung send waits on breaks: the send    *)
(* raises and the loop goes on.                                            *)
HandlerUnblock(c) ==
    /\ pc[c] = "blocked"
    /\ \E ws \in Pending(bc[c]) :
         /\ ~alive[ws]
         /\ HandlerSent(c, [bc[c] EXCEPT !.todo = @ \cup {ws}], ws, FALSE)
    /\ UNCHANGED <<room_id, tasks, store, subscribed, data, regCall>>

(* The handler's task is cancelled at one of its awaits (shutdown).        *)
(* CancelledError is a BaseException (Python 3.8 and later): neither       *)
(* except clause of lines 138-141, nor line 114, catches it, and remove    *)
(* is not called.                                                          *)
Cancel(c) ==
    /\ pc[c] \in {"connecting", "receiving", "sending"}
    /\ pc' = [pc EXCEPT ![c] = "closed"]
    /\ cause' = [cause EXCEPT ![c] = "cancelled"]
    /\ bc' = [bc EXCEPT ![c] = NoBc]
    /\ UNCHANGED <<rooms, room_id, alive, tasks, store, log, leaves,
                   subscribed, data, regCall>>

(* The transport of an accepted connection breaks or is closed; later      *)
(* sends on it raise.                                                      *)
Drop(c) ==
    /\ pc[c] \in {"receiving", "sending", "closed"}
    /\ alive[c]
    /\ alive' = [alive EXCEPT ![c] = FALSE]
    /\ UNCHANGED <<rooms, room_id, pc, bc, tasks, store, log, leaves, cause,
                   subscribed, data, regCall>>

(***************************************************************************)
(* post_message, lines 74-85, and broadcast_to_room, lines 119-123         *)
(***************************************************************************)

(* asyncio.create_task(cls.send_to_room(...)), line 123: the coroutine is  *)
(* scheduled and has not run yet.                                          *)
broadcast_to_room(ts, payload) ==
    ts \cup {[msg |-> payload, st |-> "scheduled", snap |-> {}, todo |-> {},
              dead |-> {}]}

(* Lines 79-85 called where an event loop is running: the message is       *)
(* persisted, the broadcast is scheduled and the handler returns.          *)
PostMessage(r) ==
    /\ Len(store) < MaxMsgs
    /\ LET ins == create_document(store, Message(r, "alice", "hi"), "rest")
           doc == find_one(ins.store, ins.id)
       IN  /\ store' = ins.store
           /\ tasks' = broadcast_to_room(tasks, serialize_doc(doc))
    /\ UNCHANGED <<rooms, room_id, pc, alive, bc, log, leaves, cause,
                   subscribed, data, regCall>>

(* Lines 79-84 called from a worker thread, as a "def" endpoint is: line   *)
(* 123 raises RuntimeError (no running event loop) after the insert.       *)
PostMessageNoLoop(r) ==
    /\ Len(store) < MaxMsgs
    /\ store' = create_document(store, Message(r, "alice", "hi"), "rest").store
    /\ UNCHANGED <<rooms, room_id, pc, alive, bc, tasks, log, leaves, cause,
                   subscribed, data, regCall>>

(* Lines 76-81: db is None, or the insert raises; nothing is scheduled. *)
PostMessagePersistFail(r) ==
    /\ r \in RoomIds
    /\ UNCHANGED vars

(* The scheduled send_to_room starts: lines 108-111.  A finished task is   *)
(* dropped from the set of tasks.                                          *)
TaskStart(t) ==
    /\ t.st = "scheduled"
    /\ LET r == t.msg.room_id IN
       tasks' = IF r \notin DOMAIN rooms \/ snapshot(rooms, r) = {}
                THEN tasks \ {t}
                ELSE (tasks \ {t}) \cup
                     {[t EXCEPT !.st = "sending", !.snap = snapshot(rooms, r),
                                !.todo = snapshot(rooms, r)]}
    /\ UNCHANGED <<rooms, room_id, pc, alive, bc, store, log, leaves, cause,
                   subscribed, data, regCall>>

(* One iteration of lines 111-115 in a scheduled send_to_room; after the   *)
(* last one, lines 116-117.  A KeyError of line 117 ends the task; nobody  *)
(* awaits it.                                                              *)
TaskSent(t, cur, ws, ok) ==
    LET f == sendStep(cur, ws, ok)
        res == discardDead(rooms, t.msg.room_id, f.dead)
    IN  /\ log' = logSend(log, ws, t.msg, ok)
        /\ IF f.todo # {}
           THEN /\ tasks' = (tasks \ {t}) \cup
                            {[t EXCEPT !.st = "sending", !.todo = f.todo,
                                       !.dead = f.dead]}
                /\ rooms' = rooms
           ELSE /\ tasks' = tasks \ {t}
                /\ rooms' = res.reg

(* The frame of a scheduled send_to_room call. *)
TaskFrame(t) ==
    [msg |-> t.msg, snap |-> t.snap, todo |-> t.todo, dead |-> t.dead]

(* The send_json of a scheduled send_to_room call returns or raises. *)
TaskSend(t) ==
    /\ t.st = "sending"
    /\ \E ws \in t.todo : TaskSent(t, TaskFrame(t), ws, alive[ws])
    /\ UNCHANGED <<room_id, pc, alive, bc, store, leaves, cause, subscribed,
                   data, regCall>>

(***************************************************************************)
(* Specification of the whole program                                      *)
(***************************************************************************)
Next ==
    \/ \E c \in Conns : Accept(c)
    \/ \E c \in Conns : AcceptFail(c)
    \/ \E c \in Conns : RecvFrame(c)
    \/ \E c \in Conns : RecvPersistFail(c)
    \/ \E c \in Conns : RecvDisconnect(c)
    \/ \E c \in Conns : RecvError(c)
    \/ \E c \in Conns : HandlerSend(c)
    \/ \E c \in Conns : Cancel(c)
    \/ \E c \in Conns : Drop(c)
    \/ \E r \in RoomIds : PostMessage(r)
    \/ \E r \in RoomIds : PostMessageNoLoop(r)
    \/ \E r \in RoomIds : PostMessagePersistFail(r)
    \/ \E t \in tasks : TaskStart(t)
    \/ \E t \in tasks : TaskSend(t)

Spec == Init /\ [][Next]_vars

(* Three connections in one room and one message less in the store:       *)
(* frames, REST posts, broadcasts, disconnects, broken transports and      *)
(* cancellations.                                                          *)
NextTrio ==
    \/ \E c \in Conns : Accept(c)
    \/ \E c \in Conns : RecvFrame(c) /\ Len(store') < MaxMsgs
    \/ \E c \in Conns : RecvDisconnect(c)
    \/ \E c \in Conns : HandlerSend(c)
    \/ \E c \in Conns : Cancel(c)
    \/ \E c \in Conns : Drop(c)
    \/ \E r \in RoomIds : PostMessage(r) /\ Len(store') < MaxMsgs
    \/ \E t \in tasks : TaskStart(t)
    \/ \E t \in tasks : TaskSend(t)

SpecTrio == InitTrio /\ [][NextTrio]_vars

(* The real-time path with three connections in one room and one message, *)
(* with sends that hang for as long as the transport they wait on lasts.   *)
(* The event loop resumes every coroutine whose await has completed: a     *)
(* send that returns or raises is followed by the next iteration.          *)
NextStall ==
    \/ \E c \in Conns : Accept(c)
    \/ \E c \in Conns : RecvFrame(c) /\ Len(store') < MaxMsgs
    \/ \E c \in Conns : RecvDisconnect(c)
    \/ \E c \in Conns : HandlerSend(c)
    \/ \E c \in Conns : HandlerBlock(c)
    \/ \E c \in Conns : HandlerUnblock(c)
    \/ \E c \in Conns : Drop(c)

SpecStall ==
    /\ InitTrio
    /\ [][NextStall]_vars
    /\ \A c \in Conns : WF_vars(HandlerSend(c))
    /\ \A c \in Conns : WF_vars(HandlerUnblock(c))

(* The real-time path of a running process, one message less in the       *)
(* store: every send returns or raises (a hung send is taken to fail in    *)
(* the end) and the event loop then resumes the awaiting handler.          *)
NextLive ==
    \/ \E c \in Conns : Accept(c)
    \/ \E c \in Conns : RecvFrame(c) /\ Len(store') < MaxMsgs
    \/ \E c \in Conns : RecvDisconnect(c)
    \/ \E c \in Conns : HandlerSend(c)
    \/ \E c \in Conns : Drop(c)

SpecLive ==
    /\ Init
    /\ [][NextLive]_vars
    /\ \A c \in Conns : WF_vars(HandlerSend(c))

(* The real-time path with every kind of frame, one message less in the    *)
(* store.                                                                  *)
NextFrames ==
    \/ \E c \in Conns : Accept(c)
    \/ \E c \in Conns : RecvAnyFrame(c) /\ Len(store') < MaxMsgs
    \/ \E c \in Conns : RecvDisconnect(c)
    \/ \E c \in Conns : HandlerSend(c)
    \/ \E c \in Conns : Drop(c)

SpecFrames == Init /\ [][NextFrames]_vars

(***************************************************************************)
(* Specification of the registry alone: arbitrary calls of connect and     *)
(* remove, on any room and any connection.                                 *)
(***************************************************************************)
RegJoin(r, ws) ==
    /\ rooms' = connect(rooms, r, ws)
    /\ regCall' = [op |-> "join", room |-> r, ws |-> ws, before |-> rooms,
                   err |-> FALSE, prevOp |-> regCall.op,
                   prevRoom |-> regCall.room, prevWs |-> regCall.ws,
                   before2 |-> regCall.before]
    /\ UNCHANGED <<room_id, pc, alive, bc, tasks, store, log, leaves, cause,
                   subscribed, data>>

RegLeave(r, ws) ==
    /\ rooms' = remove(rooms, r, ws).reg
    /\ regCall' = [op |-> "leave", room |-> r, ws |-> ws, before |-> rooms,
                   err |-> remove(rooms, r, ws).err, prevOp |-> regCall.op,
                   prevRoom |-> regCall.room, prevWs |-> regCall.ws,
                   before2 |-> regCall.before]
    /\ UNCHANGED <<room_id, pc, alive, bc, tasks, store, log, leaves, cause,
                   subscribed, data>>

NextReg ==
    \/ \E r \in RoomIds, ws \in Conns : RegJoin(r, ws)
    \/ \E r \in RoomIds, ws \in Conns : RegLeave(r, ws)

SpecReg == Init /\ [][NextReg]_vars

(***************************************************************************)
(* Properties                                                              *)
(***************************************************************************)
InRoom(reg, r, ws) == r \in DOMAIN reg /\ ws \in reg[r]

(* The send_to_room calls that are suspended in a send. *)
InFlight ==
    {bc[c] : c \in {x \in Conns : pc[x] = "sending"}} \cup
    {[msg |-> t.msg, snap |-> t.snap, todo |-> t.todo, dead |-> t.dead] :
        t \in {x \in tasks : x.st = "sending"}}

(* Positions of the sends of message id on connection ws. *)
Sends(lg, ws, id) == {i \in DOMAIN lg[ws] : lg[ws][i].msg.id = id}

Delivered(lg, ws, id) == {i \in Sends(lg, ws, id) : lg[ws][i].ok}

Failed(lg, ws, id) == {i \in Sends(lg, ws, id) : ~lg[ws][i].ok}

(* C1: under arbitrary join and leave calls, on any rooms and connections, *)
(* the registry never holds a room key whose membership set is empty.      *)
C1_NoEmptyRoom == \A r \in DOMAIN rooms : rooms[r] # {}

(* A leave of the last member has removed the room's entry. *)
C1_Witness ==
    /\ regCall.op = "leave"
    /\ InRoom(regCall.before, regCall.room, regCall.ws)
    /\ regCall.before[regCall.room] = {regCall.ws}
    /\ regCall.room \notin DOMAIN rooms

(* C2: with connects, disconnects and broadcasts, a room entry exists in   *)
(* the registry only while its membership set is non-empty, also after a   *)
(* broadcast whose send to the last member failed.                         *)
C2_EntryOnlyWhileNonEmpty ==
    \A r \in RoomIds : r \in DOMAIN rooms => \E ws \in Conns : ws \in rooms[r]

(* A send_to_room call of a handler returns or raises in this step. *)
HandlerCompletes(c) ==
    /\ pc[c] = "sending"
    /\ pc'[c] # "sending"
    /\ cause'[c] # "cancelled"

(* A scheduled send_to_room call ends in this step. *)
TaskCompletes(t) ==
    /\ t \in tasks
    /\ t.st = "sending"
    /\ tasks' = tasks \ {t}

(* What C3 says of a broadcast of msg over snapshot snap, when it ends:    *)
(* every member was sent the message exactly once, a member whose send     *)
(* did not fail has exactly one copy, a member whose send failed is not in *)
(* the room any more.                                                      *)
IsolatedAtEnd(msg, snap) ==
    \A ws \in snap :
        /\ Cardinality(Sends(log', ws, msg.id)) = 1
        /\ Failed(log', ws, msg.id) = {}
              => Cardinality(Delivered(log', ws, msg.id)) = 1
        /\ Failed(log', ws, msg.id) # {}
              => ~InRoom(rooms', msg.room_id, ws)

(* C3: when a broadcast ends in which a send failed, every other           *)
(* connection of the snapshot has received exactly one copy of the message *)
(* and the failing connection is no longer in the room's membership set.   *)
C3_BroadcastIsolation ==
    [][ /\ \A c \in Conns :
              HandlerCompletes(c) => IsolatedAtEnd(bc[c].msg, bc[c].snap)
        /\ \A t \in tasks :
              TaskCompletes(t) => IsolatedAtEnd(t.msg, t.snap) ]_vars

(* A finished broadcast over three connections: one send failed, each of  *)
(* the two others has its one copy, the failing one is out of the room.    *)
C3_Witness ==
    \E id \in DOMAIN store, ws \in Conns :
        /\ \A f \in InFlight : f.msg.id # id
        /\ \A t \in tasks : t.msg.id # id
        /\ Failed(log, ws, id) # {}
        /\ ~InRoom(rooms, store[id].room_id, ws)
        /\ \A other \in Conns \ {ws} :
              /\ Cardinality(Delivered(log, other, id)) = 1
              /\ Failed(log, other, id) = {}
              /\ InRoom(rooms, store[id].room_id, other)

(* C4: a message broadcast to a room is never sent to a connection that    *)
(* is subscribed to a different room.                                      *)
C4_NoCrossRoomLeak ==
    \A ws \in Conns : \A i \in DOMAIN log[ws] :
        log[ws][i].msg.room_id = room_id[ws]

(* A message of one room was delivered there while a connection was        *)
(* subscribed to the other room, which saw nothing.                        *)
C4_Witness ==
    \E ws \in Conns, other \in Conns :
        /\ room_id[ws] # room_id[other]
        /\ InRoom(rooms, room_id[other], other)
        /\ \E i \in DOMAIN log[ws] : log[ws][i].ok
        /\ log[other] = <<>>

(* The payload is the serialization of a stored document. *)
Persisted(msg) ==
    /\ msg.id \in DOMAIN store
    /\ msg.id # 0
    /\ msg = serialize_doc(store[msg.id])

(* C5: on the real-time path and on the REST path, every payload that is   *)
(* scheduled, being sent or was sent carries the non-empty id of a         *)
(* document the store holds, and no document is sent twice to a            *)
(* connection: a failed insert causes no send.                             *)
C5_PersistBeforeBroadcast ==
    /\ \A f \in InFlight : Persisted(f.msg)
    /\ \A t \in tasks : Persisted(t.msg)
    /\ \A ws \in Conns : \A i \in DOMAIN log[ws] :
          /\ Persisted(log[ws][i].msg)
          /\ Sends(log, ws, log[ws][i].msg.id) = {i}

(* A connection has received a message of the real-time path and a        *)
(* message of the REST path.                                               *)
C5_Witness ==
    \E ws \in Conns : \E i, j \in DOMAIN log[ws] :
        /\ log[ws][i].ok /\ log[ws][j].ok
        /\ log[ws][i].msg.src \in Conns
        /\ log[ws][j].msg.src = "rest"

(* C6: a handler that went from Subscribed to Closed, whatever the         *)
(* trigger, has called leave exactly once and its connection is in no      *)
(* room's membership set.                                                  *)
C6_LeaveExactlyOnce ==
    \A c \in Conns :
        (pc[c] = "closed" /\ subscribed[c]) =>
            /\ leaves[c] = 1
            /\ \A r \in DOMAIN rooms : c \notin rooms[r]

(* C7: a send failure inside a broadcast never propagates to the handler   *)
(* that triggered it: send_to_room returns normally, whatever disconnects  *)
(* interleave with it.                                                     *)
C7_NoPropagation == \A c \in Conns : cause[c] # "broadcast_error"

(* C8: leave(room, c) called twice in a row leaves the registry as one     *)
(* call does; leave on an absent room or connection changes nothing; no    *)
(* leave raises.                                                           *)
C8_IdempotentLeave ==
    regCall.op = "leave" =>
        /\ ~regCall.err
        /\ ~InRoom(regCall.before, regCall.room, regCall.ws)
              => rooms = regCall.before
        /\ (regCall.prevOp = "leave" /\ regCall.prevRoom = regCall.room
                /\ regCall.prevWs = regCall.ws)
              => rooms = regCall.before
        /\ remove(rooms, regCall.room, regCall.ws).reg = rooms

(* The same leave was called twice in a row, the first time on a member. *)
C8_Witness ==
    /\ regCall.op = "leave"
    /\ regCall.prevOp = "leave"
    /\ regCall.prevRoom = regCall.room
    /\ regCall.prevWs = regCall.ws
    /\ InRoom(regCall.before2, regCall.room, regCall.ws)

(* C9: of two frames received on one connection, the earlier is persisted  *)
(* and its broadcast has ended before the later is persisted, and a        *)
(* subscriber that is sent both is sent the earlier one first.             *)
C9_PerConnectionOrder ==
    \A i \in DOMAIN store, j \in DOMAIN store :
        (i < j /\ store[i].src \in Conns /\ store[i].src = store[j].src) =>
            /\ \A f \in InFlight : f.msg.id # i
            /\ \A t \in tasks : t.msg.id # i
            /\ \A ws \in Conns :
                  \A p \in Sends(log, ws, i), q \in Sends(log, ws, j) : p < q

(* A subscriber has received two messages of the same connection. *)
C9_Witness ==
    \E ws \in Conns : \E p, q \in DOMAIN log[ws] :
        /\ p < q
        /\ log[ws][p].ok /\ log[ws][q].ok
        /\ log[ws][p].msg.src \in Conns
        /\ log[ws][p].msg.src = log[ws][q].msg.src
        /\ log[ws][p].msg.src # ws

(* C10: no handler waits for the deliveries of a broadcast it triggered:   *)
(* a connection's handler is never suspended until the sends of its own    *)
(* broadcast are done.                                                     *)
C10_HandlerNeverWaits ==
    \A c \in Conns : ~(pc[c] = "sending" /\ bc[c].todo # {})

(* The send_to_room calls suspended in a send that never completes. *)
Blocked == {bc[c] : c \in {x \in Conns : pc[x] = "blocked"}}

(* ws is in some room's membership set. *)
Registered(ws) == \E r \in DOMAIN rooms : ws \in rooms[r]

(* C11: when the send to one subscriber hangs, every other subscriber the  *)
(* broadcast has still to send to is eventually delivered the message,     *)
(* unless it leaves the registry or its transport does not accept the      *)
(* send (it is broken, or the send to it hangs as well).                   *)
C11_NoStall ==
    \A ws \in Conns : \A id \in 1..MaxMsgs :
        (\E f \in Blocked : f.msg.id = id /\ ws \in f.todo)
            ~> (\/ Delivered(log, ws, id) # {}
                \/ ~Registered(ws)
                \/ ~alive[ws]
                \/ \E f \in Blocked : f.msg.id = id /\ ws \in Pending(f))

(* The awaited send_to_room call of handler c reaches its first send in    *)
(* this step.                                                              *)
HandlerStarts(c) == pc[c] = "receiving" /\ pc'[c] = "sending"

(* Message id was sent, successfully or not, exactly once to each          *)
(* connection of set and to no other connection.                           *)
AttemptedOnce(lg, id, set) ==
    \A ws \in Conns :
        Cardinality(Sends(lg, ws, id)) = IF ws \in set THEN 1 ELSE 0

(* C12: a broadcast sends over a copy of the room's membership taken when  *)
(* it starts: whatever joins and leaves interleave with it, the copy does  *)
(* not change while the broadcast is suspended, the connections sent to so *)
(* far are those of the copy the loop has passed, once each, and when the  *)
(* broadcast ends every connection of the copy, and no other, has been     *)
(* sent the message exactly once.                                          *)
C12_StableSnapshot ==
    [][ /\ \A c \in Conns :
              /\ HandlerStarts(c) =>
                    /\ bc'[c].snap = rooms[room_id[c]]
                    /\ bc'[c].todo = bc'[c].snap
              /\ (pc[c] = "sending" /\ pc'[c] = "sending") =>
                    /\ bc'[c].snap = bc[c].snap
                    /\ AttemptedOnce(log', bc[c].msg.id,
                                     bc[c].snap \ bc'[c].todo)
              /\ HandlerCompletes(c) =>
                    AttemptedOnce(log', bc[c].msg.id, bc[c].snap)
        /\ \A t \in tasks : \A u \in tasks' :
              u.msg.id = t.msg.id =>
                 /\ (t.st = "scheduled" /\ u.st = "sending") =>
                       /\ u.snap = rooms[t.msg.room_id]
                       /\ u.todo = u.snap
                 /\ t.st = "sending" =>
                       /\ u.snap = t.snap
                       /\ AttemptedOnce(log', t.msg.id, t.snap \ u.todo)
        /\ \A t \in tasks :
              TaskCompletes(t) => AttemptedOnce(log', t.msg.id, t.snap) ]_vars

(* A broadcast is suspended between two sends while a connection of its    *)
(* snapshot has left the room and a connection that is not in its snapshot *)
(* has joined the room.                                                    *)
C12_Witness ==
    \E f \in InFlight :
        /\ f.todo # {}
        /\ f.todo # f.snap
        /\ f.msg.room_id \in DOMAIN rooms
        /\ rooms[f.msg.room_id] \ f.snap # {}
        /\ f.snap \ rooms[f.msg.room_id] # {}

(* C13: a connection is in the membership set of at most one room. *)
C13_AtMostOneRoom ==
    \A ws \in Conns :
        Cardinality({r \in DOMAIN rooms : ws \in rooms[r]}) <= 1

(* Two connections are registered, each in its own room. *)
C13_Witness ==
    \E ws \in Conns, other \in Conns :
        /\ room_id[ws] # room_id[other]
        /\ InRoom(rooms, room_id[ws], ws)
        /\ InRoom(rooms, room_id[other], other)
        /\ Cardinality(DOMAIN rooms) = 2

(* Handler c persists a frame and calls send_to_room in this step. *)
HandlerCalls(c) ==
    /\ pc[c] = "receiving"
    /\ Len(store') = Len(store) + 1
    /\ store'[Len(store')].src = c

(* C14: a send_to_room call for a room that has no entry in the registry   *)
(* returns at once: nothing is sent, nothing is raised (a handler that     *)
(* awaits it is back at its receive, a scheduled call just ends) and the   *)
(* registry is unchanged.                                                  *)
C14_AbsentRoomNoOp ==
    [][ /\ \A c \in Conns :
              (HandlerCalls(c) /\ room_id[c] \notin DOMAIN rooms) =>
                 /\ pc'[c] = "receiving"
                 /\ cause' = cause
                 /\ bc' = bc
                 /\ log' = log
                 /\ rooms' = rooms
        /\ \A t \in tasks :
              (t.st = "scheduled" /\ t \notin tasks'
                  /\ t.msg.room_id \notin DOMAIN rooms) =>
                 /\ tasks' = tasks \ {t}
                 /\ log' = log
                 /\ rooms' = rooms ]_vars

(* Connection c was discarded by the broadcast of message 1, whose sender  *)
(* then left and took the room's entry with it; a frame of c queued before *)
(* its transport broke was persisted as message 2 and broadcast to the     *)
(* room without entry: nothing was sent and c is back at its receive.      *)
C14_Witness ==
    \E c \in Conns, o \in Conns :
        /\ c # o
        /\ room_id[c] = room_id[o]
        /\ Len(store) = 2
        /\ store[1].src = o
        /\ store[2].src = c
        /\ Failed(log, c, 1) # {}
        /\ pc[o] = "closed"
        /\ pc[c] = "receiving"
        /\ room_id[c] \notin DOMAIN rooms
        /\ \A ws \in Conns : Sends(log, ws, 2) = {}

(* Connection ws was delivered the serialization of the stored message id, *)
(* which carries the room of connection c and was inserted by c.           *)
DeliveredFrom(c, ws, id) ==
    /\ id \in DOMAIN store
    /\ store[id].src = c
    /\ store[id].room_id = room_id[c]
    /\ \E i \in Delivered(log, ws, id) :
          log[ws][i].msg = serialize_doc(store[id])

RestPersists ==
    /\ Len(store') = Len(store) + 1
    /\ store'[Len(store')].src = "rest"

(* C16: when the REST handler has persisted a message, a broadcast of the  *)
(* serialized stored document is issued for its room: the send_to_room     *)
(* call is scheduled when the handler returns.                             *)
C16_RestBroadcastIssued ==
    [][ RestPersists =>
          \E t \in tasks' \ tasks :
              /\ t.st = "scheduled"
              /\ t.msg = serialize_doc(store'[Len(store')]) ]_vars

(* The document that connection c inserted last. *)
LastDoc(c) ==
    LET own == {i \in DOMAIN store : store[i].src = c}
    IN  store[CHOOSE i \in own : \A j \in own : j <= i]

C18_MembersSubscribed ==
    \A r \in DOMAIN rooms : \A c \in rooms[r] :
        /\ pc[c] \in {"receiving", "sending"}
        /\ room_id[c] = r

(* C19: a step of a send_to_room call (its start, or one of its sends with *)
(* what follows the last one) never adds a connection to a membership set, *)
(* never adds, deletes or changes the entry of another room, and removes   *)
(* from its room only connections whose send of its message failed.        *)
C19_BroadcastOnlyShrinks ==
    [][ /\ \A c \in Conns : HandlerCalls(c) => rooms' = rooms
        /\ \A t \in tasks :
              (t.st = "scheduled" /\ t \notin tasks') => rooms' = rooms
        /\ \A ws \in Conns :
              Len(log'[ws]) > Len(log[ws]) =>
                 LET m == log'[ws][Len(log'[ws])].msg
                     r == m.room_id
                 IN  /\ DOMAIN rooms' = DOMAIN rooms
                     /\ \A k \in DOMAIN rooms :
                           /\ rooms'[k] \subseteq rooms[k]
                           /\ k # r => rooms'[k] = rooms[k]
                           /\ \A x \in rooms[k] \ rooms'[k] :
                                 Failed(log', x, m.id) # {} ]_vars

(* A broadcast has discarded the connection whose send failed, whose       *)
(* handler is still in its receive, and left in the room the connection    *)
(* that was delivered the message.                                         *)
C19_Witness ==
    \E ws \in Conns, o \in Conns, id \in DOMAIN store :
        /\ room_id[ws] = store[id].room_id
        /\ Failed(log, ws, id) # {}
        /\ pc[ws] = "receiving"
        /\ ~InRoom(rooms, room_id[ws], ws)
        /\ InRoom(rooms, room_id[ws], o)
        /\ Delivered(log, o, id) # {}

(* C20: a connection that was registered and is in no membership set any   *)
(* more (its handler left, or a broadcast discarded it) is in no           *)
(* membership set after any step, whatever its handler goes on to do.      *)
C20_RemovalPermanent ==
    [][ \A c \in Conns :
          (subscribed[c] /\ ~Registered(c)) =>
              \A r \in DOMAIN rooms' : c \notin rooms'[r] ]_vars

(* A connection discarded by a broadcast stayed in its receive loop, and   *)
(* a later frame of it was persisted and delivered to the member of its    *)
(* room, not to itself: it is still in no membership set.                  *)
C20_Witness ==
    \E c \in Conns, o \in Conns : \E j \in DOMAIN store, id \in DOMAIN store :
        /\ j < id
        /\ store[id].src = c
        /\ Failed(log, c, j) # {}
        /\ Sends(log, c, id) = {}
        /\ Delivered(log, o, id) # {}
        /\ pc[c] = "receiving"
        /\ subscribed[c]
        /\ ~Registered(c)

====
